---- MODULE Spec2Model ----
(***************************************************************************)
(* Model of tenorite-ui's component core: the n-ary gate component         *)
(* (src/libraries/gates.rs), the position/orientation wrapper             *)
(* ComponentInfo and the orientation transform (src/component.rs), and    *)
(* the instantiation path of the registry (src/library.rs).               *)
(***************************************************************************)
EXTENDS Integers, Sequences, FiniteSets, TLC

(* ---------------------------------------------------------------------- *)
(* Bounds of the model                                                     *)
(* ---------------------------------------------------------------------- *)

\* largest in-range integer offered as a property value
MaxInt == 3

\* largest small coordinate offered for widths, heights and pin positions
MaxCoord == 1

\* largest number of pins of a raw shape
MaxPins == 1

\* largest number of successive rotations applied to one shape
MaxSteps == 2

(* ---------------------------------------------------------------------- *)
(* State                                                                   *)
(* ---------------------------------------------------------------------- *)

VARIABLES
    info,             \* the ComponentInfo returned by create("or_gate")
    last,             \* the most recent call on info: operation, name, what it returned
    overflow_checks,  \* build profile: TRUE when i32 overflow panics, FALSE when it wraps
    placed,           \* a ComponentInfo wrapping a component with an arbitrary raw shape
    stored,           \* the orientation most recently stored successfully in placed
    shown,            \* what the most recent placed.get_shape() returned
    orig,             \* a shape handed to Orientation::map_shape
    cur,              \* the result of the map_shape calls applied to orig so far
    steps,            \* the orientations of those calls, in order
    registry,         \* a Library under construction and in use
    other,            \* a second Library, built apart and handed to registry.extend
    lib_last,         \* the most recent call on a Library and what it returned
    latest_add,       \* per id: the metadata of the latest registry.add, and how many there were
    latest_write,     \* per id: the metadata most recently inserted into registry
    objects,          \* the heap: the component each Box<AnyComponent> points to
    inst,             \* the ComponentInfos obtained from create, holding their Box
    inst_last         \* the most recent set_property on one of them

\* the variables of the registry and of the instances created from it
libVars == <<registry, other, lib_last, latest_add, latest_write>>
instVars == <<objects, inst, inst_last>>

vars == <<info, last, overflow_checks, placed, stored, shown, orig, cur, steps,
          registry, other, lib_last, latest_add, latest_write,
          objects, inst, inst_last>>

(* ---------------------------------------------------------------------- *)
(* Machine integers                                                        *)
(* ---------------------------------------------------------------------- *)

\* i32::MAX and i32::MIN
I32Max == 2147483647
I32Min == -I32Max - 1

(* ---------------------------------------------------------------------- *)
(* serde_json::Value, as far as the property interface uses it             *)
(* ---------------------------------------------------------------------- *)

JNull == [t |-> "null", s |-> "", n |-> 0]
JString(s) == [t |-> "string", s |-> s, n |-> 0]
\* an integral JSON number (serde_json PosInt / NegInt)
JNumber(n) == [t |-> "number", s |-> "", n |-> n]
\* a non-integral JSON number (serde_json Float); n is its integer part
JFloat(n) == [t |-> "float", s |-> "", n |-> n]
\* an integral JSON number above u32::MAX
JHuge == [t |-> "huge", s |-> "", n |-> 0]
\* the single-key object { s: null }
JUnitObject(s) == [t |-> "object", s |-> s, n |-> 0]

\* results of decoding / of Option
Decoded(v) == [ok |-> TRUE, v |-> v]
DecodeError == [ok |-> FALSE, v |-> 0]

\* serde_json::from_value for a unit-variant enum (derive(Deserialize)):
\* a string naming a variant, or a single-key object whose key names a
\* variant and whose content is null; everything else is an error.
from_value_enum(value, variants) ==
    IF value.t \in {"string", "object"} /\ value.s \in variants
    THEN Decoded(value.s)
    ELSE DecodeError

\* serde_json::from_value::<u32>: an integral number that fits u32 (every
\* non-negative JNumber does; the numbers above u32::MAX are JHuge).
from_value_u32(value) ==
    IF value.t = "number" /\ value.n >= 0
    THEN Decoded(value.n)
    ELSE DecodeError

\* serde_json::to_value of a unit variant is the variant's name as a string;
\* of a u32 it is an integral number.
to_value_enum(variant) == JString(variant)
to_value_u32(n) == JNumber(n)

(* ---------------------------------------------------------------------- *)
(* Strings: decimal formatting and prefixes                                *)
(* ---------------------------------------------------------------------- *)

Digits == <<"0", "1", "2", "3", "4", "5", "6", "7", "8", "9">>

\* format!("{}", n) for an unsigned integer
RECURSIVE FormatDecimal(_)
FormatDecimal(n) ==
    IF n < 10 THEN Digits[n + 1]
    ELSE FormatDecimal(n \div 10) \o Digits[(n % 10) + 1]

\* str::starts_with
starts_with(s, prefix) ==
    Len(s) >= Len(prefix) /\ SubSeq(s, 1, Len(prefix)) = prefix

\* format!("invert_input_{}", i)
invert_input_id(i) == "invert_input_" \o FormatDecimal(i)

(* ---------------------------------------------------------------------- *)
(* src/component.rs: field types, schema, property errors                  *)
(* ---------------------------------------------------------------------- *)

FieldType_Integer(min, max) ==
    [kind |-> "Integer", min |-> min, max |-> max, options |-> <<>>]

\* FieldType::for_enum: the variants' serialized names, in order
for_enum(variants) ==
    [kind |-> "Enum", min |-> 0, max |-> 0,
     options |-> [i \in 1..Len(variants) |-> to_value_enum(variants[i]).s]]

FieldSchema(read_only, type_, name) ==
    [read_only |-> read_only, type_ |-> type_, name |-> name,
     description |-> "None"]

\* BTreeMap::insert on a schema
insert(map, key, value) ==
    [k \in (DOMAIN map) \cup {key} |-> IF k = key THEN value ELSE map[k]]

\* Result<(), PropertyError> and a panic of the call
Ok == [kind |-> "Ok", name |-> "", reason |-> ""]
\* PropertyError::from_serde (the explanation text of serde is not modelled)
from_serde(name) == [kind |-> "Err", name |-> name, reason |-> "InvalidValue"]
\* PropertyError::unknown
unknown(name) == [kind |-> "Err", name |-> name, reason |-> "UnknownProperty"]
Panic == [kind |-> "Panic", name |-> "", reason |-> ""]

\* Option<serde_json::Value>, and a panic of the call
Some(v) == [kind |-> "Some", v |-> v]
None == [kind |-> "None", v |-> JNull]
GetPanic == [kind |-> "Panic", v |-> JNull]

(* ---------------------------------------------------------------------- *)
(* src/libraries/gates.rs: NaryGate                                        *)
(* ---------------------------------------------------------------------- *)

\* NaryGateType::image_name
image_name(type_, inverted) ==
    CASE type_ = "And" /\ ~inverted -> "and_gate"
      [] type_ = "Or" /\ ~inverted -> "or_gate"
      [] type_ = "Xor" /\ ~inverted -> "xor_gate"
      [] type_ = "Parity" /\ ~inverted -> "odd_parity"
      [] type_ = "And" /\ inverted -> "nand_gate"
      [] type_ = "Or" /\ inverted -> "nor_gate"
      [] type_ = "Xor" /\ inverted -> "xnor_gate"
      [] type_ = "Parity" /\ inverted -> "even_parity"

\* NaryGate::new
NaryGate_new(type_) ==
    [type_ |-> type_,
     invert_output |-> FALSE,
     num_inputs |-> 2,
     num_bits |-> 1,
     invert_inputs |-> <<FALSE, FALSE>>]

\* enum YesNo and its conversions from and to bool
YesNo == {"Yes", "No"}
bool_from_YesNo(v) == v = "Yes"
YesNo_from_bool(b) == IF b THEN "Yes" ELSE "No"

\* SmallBitVec::resize(len, false): truncate, or extend with false
resize(bits, len) ==
    [i \in 1..len |-> IF i <= Len(bits) THEN bits[i] ELSE FALSE]

\* variant of schema_inputs whose loop runs over 0..=num_inputs
RECURSIVE schema_inputs_inclusive(_, _, _)
schema_inputs_inclusive(result, i, num_inputs) ==
    IF i > num_inputs THEN result
    ELSE schema_inputs_inclusive(
            insert(result, invert_input_id(i),
                   FieldSchema(FALSE, for_enum(<<"No", "Yes">>),
                               "Invert input " \o FormatDecimal(i))),
            i + 1, num_inputs)

\* Component::schema for NaryGate: the loop `for i in 0..self.num_inputs`
RECURSIVE schema_inputs(_, _, _)
schema_inputs(result, i, num_inputs) ==
    IF i >= num_inputs THEN result
    ELSE schema_inputs(
            insert(result, invert_input_id(i),
                   FieldSchema(FALSE, for_enum(<<"No", "Yes">>),
                               "Invert input " \o FormatDecimal(i))),
            i + 1, num_inputs)

NaryGate_schema(self) ==
    LET result ==
          [k \in {"invert_output", "num_inputs", "num_bits"} |->
             CASE k = "invert_output" ->
                    FieldSchema(FALSE, for_enum(<<"No", "Yes">>), "Invert output")
               [] k = "num_inputs" ->
                    FieldSchema(FALSE, FieldType_Integer(2, 32), "Number of inputs")
               [] k = "num_bits" ->
                    FieldSchema(FALSE, FieldType_Integer(1, 256), "Data bits")]
    IN schema_inputs(result, 0, self.num_inputs)

\* the loop `for i in 0..self.num_inputs { if format!(..) == name {..} }`:
\* the first index whose id equals the name, or -1 when the loop falls through
RECURSIVE find_input(_, _, _)
find_input(name, i, num_inputs) ==
    IF i >= num_inputs THEN -1
    ELSE IF invert_input_id(i) = name THEN i
    ELSE find_input(name, i + 1, num_inputs)

\* the outcome of a set_property call: the state it leaves and what it returns
Outcome(self, result) == [self |-> self, result |-> result]

\* variant of set_invert_output that falls back to the default before it
\* reports the decoding error
set_invert_output_default(self, name, value) ==
    LET d == from_value_enum(value, YesNo)
    IN IF ~d.ok THEN Outcome([self EXCEPT !.invert_output = FALSE], from_serde(name))
       ELSE Outcome([self EXCEPT !.invert_output = bool_from_YesNo(d.v)], Ok)

\* set_property, arm "invert_output"
set_invert_output(self, name, value) ==
    LET d == from_value_enum(value, YesNo)
    IN IF ~d.ok THEN Outcome(self, from_serde(name))
       ELSE Outcome([self EXCEPT !.invert_output = bool_from_YesNo(d.v)], Ok)

\* set_property, arm "num_inputs"
set_num_inputs(self, name, value) ==
    LET d == from_value_u32(value)
    IN IF ~d.ok THEN Outcome(self, from_serde(name))
       ELSE Outcome([self EXCEPT !.num_inputs = d.v,
                                 !.invert_inputs = resize(self.invert_inputs, d.v)],
                    Ok)

\* set_property, arm "num_bits": the decoded value is assigned to
\* self.num_inputs, and invert_inputs is not resized
set_num_bits(self, name, value) ==
    LET d == from_value_u32(value)
    IN IF ~d.ok THEN Outcome(self, from_serde(name))
       ELSE Outcome([self EXCEPT !.num_inputs = d.v], Ok)

\* set_property, arm `_ if name.starts_with("invert_input_")`: the value is
\* decoded before the name is looked up
set_invert_input(self, name, value) ==
    LET d == from_value_enum(value, YesNo)
        i == find_input(name, 0, self.num_inputs)
    IN IF ~d.ok THEN Outcome(self, from_serde(name))
       ELSE IF i = -1 THEN Outcome(self, unknown(name))
       \* SmallBitVec::set asserts that the index is in range
       ELSE IF i >= Len(self.invert_inputs) THEN Outcome(self, Panic)
       ELSE Outcome([self EXCEPT !.invert_inputs[i + 1] = bool_from_YesNo(d.v)], Ok)

\* Component::set_property for NaryGate
NaryGate_set_property(self, name, value) ==
    CASE name = "invert_output" -> set_invert_output(self, name, value)
      [] name = "num_inputs" -> set_num_inputs(self, name, value)
      [] name = "num_bits" -> set_num_bits(self, name, value)
      [] name \notin {"invert_output", "num_inputs", "num_bits"}
         /\ starts_with(name, "invert_input_") -> set_invert_input(self, name, value)
      [] OTHER -> Outcome(self, unknown(name))

\* Component::get_property for NaryGate
NaryGate_get_property(self, name) ==
    CASE name = "invert_output" ->
           Some(to_value_enum(YesNo_from_bool(self.invert_output)))
      [] name = "num_inputs" -> Some(to_value_u32(self.num_inputs))
      [] name = "num_bits" -> Some(to_value_u32(self.num_bits))
      [] name \notin {"invert_output", "num_inputs", "num_bits"}
         /\ starts_with(name, "invert_input_") ->
           LET i == find_input(name, 0, self.num_inputs)
           IN IF i = -1 THEN None
              \* indexing a SmallBitVec out of range panics
              ELSE IF i >= Len(self.invert_inputs) THEN GetPanic
              ELSE Some(to_value_enum(YesNo_from_bool(self.invert_inputs[i + 1])))
      [] OTHER -> None

\* struct Shape
Shape(width, height, pins, image) ==
    [width |-> width, height |-> height, pins |-> pins, image_name |-> image]

\* Component::get_shape for NaryGate
NaryGate_get_shape(self) ==
    Shape(3, 3, <<>>, image_name(self.type_, self.invert_output))

(* ---------------------------------------------------------------------- *)
(* src/component.rs: Orientation and its transform                         *)
(* ---------------------------------------------------------------------- *)

\* enum Orientation
Orientation == {"North", "East", "South", "West"}

\* a value returned by a call, or the call unwinding with a panic
Returned(v) == [ok |-> TRUE, v |-> v]
Unwound == [ok |-> FALSE]

\* i32 subtraction: panics on overflow when overflow checks are compiled in,
\* wraps in two's complement otherwise
sub(a, b) ==
    IF b < 0 /\ a > I32Max + b
    THEN \* a - b exceeds i32::MAX; the wrapped result is a - b - 2^32
         IF overflow_checks THEN Unwound
         ELSE Returned((a + I32Min) - (b - I32Min))
    ELSE IF b > 0 /\ a < I32Min + b
    THEN \* a - b is below i32::MIN; the wrapped result is a - b + 2^32
         IF overflow_checks THEN Unwound
         ELSE Returned((a - I32Min) - (b + I32Min))
    ELSE Returned(a - b)

\* variant of map_point whose West arm subtracts from the width
map_point_west_width(self, x, y, w, h) ==
    CASE self = "North" -> Returned(<<x, y>>)
      [] self = "East" ->
           IF sub(w, y).ok THEN Returned(<<sub(w, y).v, x>>) ELSE Unwound
      [] self = "South" ->
           IF sub(w, x).ok /\ sub(h, y).ok
           THEN Returned(<<sub(w, x).v, sub(h, y).v>>) ELSE Unwound
      [] self = "West" ->
           IF sub(w, x).ok THEN Returned(<<y, sub(w, x).v>>) ELSE Unwound

\* variant of map_point whose East arm subtracts from the height
map_point_east_height(self, x, y, w, h) ==
    CASE self = "North" -> Returned(<<x, y>>)
      [] self = "East" ->
           IF sub(h, y).ok THEN Returned(<<sub(h, y).v, x>>) ELSE Unwound
      [] self = "South" ->
           IF sub(w, x).ok /\ sub(h, y).ok
           THEN Returned(<<sub(w, x).v, sub(h, y).v>>) ELSE Unwound
      [] self = "West" ->
           IF sub(h, x).ok THEN Returned(<<y, sub(h, x).v>>) ELSE Unwound

\* Orientation::map_point
map_point(self, x, y, w, h) ==
    CASE self = "North" -> Returned(<<x, y>>)
      [] self = "East" ->
           IF sub(w, y).ok THEN Returned(<<sub(w, y).v, x>>) ELSE Unwound
      [] self = "South" ->
           IF sub(w, x).ok /\ sub(h, y).ok
           THEN Returned(<<sub(w, x).v, sub(h, y).v>>) ELSE Unwound
      [] self = "West" ->
           IF sub(h, x).ok THEN Returned(<<y, sub(h, x).v>>) ELSE Unwound

\* struct Pin
Pin(x, y, name, bits) == [x |-> x, y |-> y, name |-> name, bits |-> bits]

\* variant of map_shape that leaves width and height in place
map_shape_unswapped(self, shape) ==
    LET mapped(pin) == map_point(self, pin.x, pin.y, shape.width, shape.height)
    IN IF \E i \in 1..Len(shape.pins) : ~mapped(shape.pins[i]).ok
       THEN Unwound
       ELSE Returned(
              [shape EXCEPT
                 !.pins = [i \in 1..Len(shape.pins) |->
                             [shape.pins[i] EXCEPT
                                !.x = mapped(shape.pins[i]).v[1],
                                !.y = mapped(shape.pins[i]).v[2]]]])

\* Orientation::map_shape
map_shape(self, shape) ==
    LET swap == self \in {"East", "West"}
        width == IF swap THEN shape.height ELSE shape.width
        height == IF swap THEN shape.width ELSE shape.height
        mapped(pin) == map_point(self, pin.x, pin.y, width, height)
    IN IF \E i \in 1..Len(shape.pins) : ~mapped(shape.pins[i]).ok
       THEN Unwound
       ELSE Returned(
              [shape EXCEPT
                 !.width = width,
                 !.height = height,
                 !.pins = [i \in 1..Len(shape.pins) |->
                             [shape.pins[i] EXCEPT
                                !.x = mapped(shape.pins[i]).v[1],
                                !.y = mapped(shape.pins[i]).v[2]]]])

\* impl ReflectType for Orientation
Orientation_field_type == for_enum(<<"North", "East", "South", "West">>)

(* ---------------------------------------------------------------------- *)
(* src/component.rs: the Component trait object and ComponentInfo          *)
(* ---------------------------------------------------------------------- *)

\* A Box<AnyComponent> is either an NaryGate or, for the shape transform,
\* a component without properties whose get_shape returns a fixed shape.
FixedShape(shape) == [shape |-> shape]
IsNaryGate(component) == "type_" \in DOMAIN component

\* dynamic dispatch of the Component trait's methods
Component_schema(component) ==
    IF IsNaryGate(component) THEN NaryGate_schema(component)
    ELSE [k \in {} |-> FieldSchema(FALSE, for_enum(<<>>), "")]

Component_set_property(component, name, value) ==
    IF IsNaryGate(component) THEN NaryGate_set_property(component, name, value)
    ELSE Outcome(component, unknown(name))

Component_get_property(component, name) ==
    IF IsNaryGate(component) THEN NaryGate_get_property(component, name)
    ELSE None

Component_get_shape(component) ==
    IF IsNaryGate(component) THEN NaryGate_get_shape(component)
    ELSE component.shape

\* ComponentInfo::ORIENTATION
ORIENTATION == "orientation"

\* variant of ComponentInfo::new that starts out facing East
ComponentInfo_new_east(component, metadata) ==
    [component |-> component,
     orientation |-> "East",
     x |-> 0,
     y |-> 0,
     metadata |-> metadata]

\* ComponentInfo::new
ComponentInfo_new(component, metadata) ==
    [component |-> component,
     orientation |-> "North",
     x |-> 0,
     y |-> 0,
     metadata |-> metadata]

\* variant of ComponentInfo::schema that builds a schema of its own instead of
\* extending the component's
ComponentInfo_schema_own(self) ==
    insert([k \in {} |-> FieldSchema(FALSE, for_enum(<<>>), "")], ORIENTATION,
           FieldSchema(FALSE, Orientation_field_type, "Orientation"))

\* ComponentInfo::schema
ComponentInfo_schema(self) ==
    insert(Component_schema(self.component), ORIENTATION,
           FieldSchema(FALSE, Orientation_field_type, "Orientation"))

\* variant of ComponentInfo::set_property whose delegating arm puts the
\* orientation back to North
ComponentInfo_set_property_reset(self, name, value) ==
    IF name = ORIENTATION
    THEN LET d == from_value_enum(value, Orientation)
         IN IF ~d.ok THEN Outcome(self, from_serde(name))
            ELSE Outcome([self EXCEPT !.orientation = d.v], Ok)
    ELSE LET inner == Component_set_property(self.component, name, value)
         IN Outcome([self EXCEPT !.component = inner.self, !.orientation = "North"],
                    inner.result)

\* ComponentInfo::set_property
ComponentInfo_set_property(self, name, value) ==
    IF name = ORIENTATION
    THEN LET d == from_value_enum(value, Orientation)
         IN IF ~d.ok THEN Outcome(self, from_serde(name))
            ELSE Outcome([self EXCEPT !.orientation = d.v], Ok)
    ELSE LET inner == Component_set_property(self.component, name, value)
         IN Outcome([self EXCEPT !.component = inner.self], inner.result)

\* ComponentInfo::get_property
ComponentInfo_get_property(self, name) ==
    IF name = ORIENTATION THEN Some(to_value_enum(self.orientation))
    ELSE Component_get_property(self.component, name)

\* variant of ComponentInfo::get_shape that hands out the raw shape
ComponentInfo_get_shape_raw(self) ==
    Returned(Component_get_shape(self.component))

\* ComponentInfo::get_shape
ComponentInfo_get_shape(self) ==
    map_shape(self.orientation, Component_get_shape(self.component))

(* ---------------------------------------------------------------------- *)
(* src/library.rs and gates::library: the registry's instantiation path    *)
(* ---------------------------------------------------------------------- *)

\* gates::CATEGORY
CATEGORY == "Gates"

\* ComponentMetadata::new
ComponentMetadata_new(id, name, category, description) ==
    [id |-> id, name |-> name, category |-> category, description |-> description]

\* a factory closure is named by the gate type it constructs; calling it
\* evaluates `Box::new(NaryGate::new(type_))`
call_factory(factory) == NaryGate_new(factory)

\* Library::add: insert the entry under metadata.id
Library_add(components, metadata, factory) ==
    [id \in (DOMAIN components) \cup {metadata.id} |->
       IF id = metadata.id THEN [metadata |-> metadata, factory |-> factory]
       ELSE components[id]]

\* Library::new
Library_new == [id \in {} |-> [metadata |-> 0, factory |-> ""]]

\* gates::library
library ==
    Library_add(Library_new,
                ComponentMetadata_new("or_gate", "OR Gate", CATEGORY, "Logical OR gate"),
                "Or")

\* variant of Library::create whose error does not carry the requested id
Library_create_anonymous(components, id) ==
    IF id \notin DOMAIN components THEN [ok |-> FALSE, v |-> [id |-> ""]]
    ELSE [ok |-> TRUE,
          v |-> ComponentInfo_new(call_factory(components[id].factory),
                                  components[id].metadata)]

\* Library::create
Library_create(components, id) ==
    IF id \notin DOMAIN components THEN [ok |-> FALSE, v |-> [id |-> id]]
    ELSE [ok |-> TRUE,
          v |-> ComponentInfo_new(call_factory(components[id].factory),
                                  components[id].metadata)]

\* variant of Library::extend in which an entry already present is kept
Library_extend_keep(components, incoming) ==
    [id \in (DOMAIN components) \cup (DOMAIN incoming) |->
       IF id \in DOMAIN components THEN components[id] ELSE incoming[id]]

\* Library::extend: BTreeMap::extend inserts every incoming entry, replacing
\* the entry of a key that is already present
Library_extend(components, incoming) ==
    [id \in (DOMAIN components) \cup (DOMAIN incoming) |->
       IF id \in DOMAIN incoming THEN incoming[id] ELSE components[id]]

\* the bytes that occur in ids, in ascending byte order
Bytes == "0123456789_abcdefghijklmnopqrstuvwxyz"

\* the position of a one-byte string in Bytes
byte_rank(c) == CHOOSE r \in 1..Len(Bytes) : SubSeq(Bytes, r, r) = c

\* Ord for String: byte-wise lexicographic comparison, a proper prefix first
RECURSIVE str_lt(_, _, _)
str_lt(a, b, i) ==
    IF i > Len(b) THEN FALSE
    ELSE IF i > Len(a) THEN TRUE
    ELSE IF SubSeq(a, i, i) = SubSeq(b, i, i) THEN str_lt(a, b, i + 1)
    ELSE byte_rank(SubSeq(a, i, i)) < byte_rank(SubSeq(b, i, i))

\* BTreeMap::values: the entries in ascending order of their keys
RECURSIVE values(_, _)
values(components, keys) ==
    IF keys = {} THEN <<>>
    ELSE LET first == CHOOSE k \in keys : \A j \in keys \ {k} : str_lt(k, j, 1)
         IN <<components[first]>> \o values(components, keys \ {first})

\* variant of Library::list that collects only the first entry
Library_list_first(components) ==
    LET entries == values(components, DOMAIN components)
    IN [i \in 1..(IF Len(entries) > 0 THEN 1 ELSE 0) |-> entries[i].metadata]

\* Library::list
Library_list(components) ==
    LET entries == values(components, DOMAIN components)
    IN [i \in 1..Len(entries) |-> entries[i].metadata]

(* ---------------------------------------------------------------------- *)
(* Inputs offered to the property interface                                *)
(* ---------------------------------------------------------------------- *)

\* property names: the fixed ones, every invert_input_k up to one past the
\* largest input count, a zero-padded index, the bare prefix, an unrelated name
Names ==
    {"invert_output", "num_inputs", "num_bits", ORIENTATION,
     "invert_input_", "invert_input_01", "bogus"}
    \cup {invert_input_id(k) : k \in 0..MaxInt}

\* property values: integers below, inside and above u32, a fraction, the
\* tokens of both enums, a token of neither, null and single-key objects
Values ==
    {JNumber(n) : n \in -1..MaxInt}
    \cup {JHuge, JFloat(2), JNull}
    \cup {JString(s) : s \in YesNo \cup Orientation \cup {"Maybe"}}
    \cup {JUnitObject("Yes"), JUnitObject("East")}

(* ---------------------------------------------------------------------- *)
(* The placed or_gate: calls of the host on one ComponentInfo              *)
(* ---------------------------------------------------------------------- *)

\* the call recorded in `last`
Call(op, name, result) == [op |-> op, name |-> name, result |-> result]

InitInfo ==
    /\ info = Library_create(library, "or_gate").v
    /\ last = Call("create", "or_gate", Ok)

\* host calls info.set_property(name, value)
set_property(name, value) ==
    LET out == ComponentInfo_set_property(info, name, value)
    IN /\ info' = out.self
       /\ last' = Call("set_property", name, out.result)

\* host calls info.get_property(name)
get_property(name) ==
    /\ last' = Call("get_property", name, ComponentInfo_get_property(info, name))
    /\ UNCHANGED info

\* host calls info.schema()
schema ==
    /\ last' = Call("schema", "", ComponentInfo_schema(info))
    /\ UNCHANGED info

\* host calls info.get_shape()
get_shape ==
    /\ last' = Call("get_shape", "", ComponentInfo_get_shape(info))
    /\ UNCHANGED info

(* ---------------------------------------------------------------------- *)
(* Shapes offered to the orientation transform                             *)
(* ---------------------------------------------------------------------- *)

\* coordinates: small ones around zero and the largest i32
Coords == (-1..MaxCoord) \cup {I32Max}

Pins == {Pin(x, y, "p", 1) : x \in Coords, y \in Coords}

PinLists == UNION {[1..n -> Pins] : n \in 0..MaxPins}

Shapes == {Shape(w, h, pins, "img") : w \in Coords, h \in Coords, pins \in PinLists}

(* ---------------------------------------------------------------------- *)
(* A ComponentInfo over an arbitrary raw shape                             *)
(* ---------------------------------------------------------------------- *)

InitPlaced ==
    /\ placed \in {ComponentInfo_new(FixedShape(s), library["or_gate"].metadata) : s \in Shapes}
    /\ stored = "North"
    /\ shown = Returned(Component_get_shape(placed.component))

\* host calls placed.set_property("orientation", value)
set_orientation(value) ==
    LET out == ComponentInfo_set_property(placed, ORIENTATION, value)
    IN /\ placed' = out.self
       /\ stored' = IF out.result = Ok THEN value.s ELSE stored
       /\ UNCHANGED shown

\* host calls placed.get_shape()
show_shape ==
    /\ shown' = ComponentInfo_get_shape(placed)
    /\ UNCHANGED <<placed, stored>>

(* ---------------------------------------------------------------------- *)
(* Successive applications of Orientation::map_shape                       *)
(* ---------------------------------------------------------------------- *)

InitRotate ==
    /\ orig \in Shapes
    /\ cur = Returned(orig)
    /\ steps = <<>>

\* orientation.map_shape(cur)
rotate(orientation) ==
    /\ Len(steps) < MaxSteps
    /\ cur.ok
    /\ cur' = map_shape(orientation, cur.v)
    /\ steps' = Append(steps, orientation)
    /\ UNCHANGED orig

(* ---------------------------------------------------------------------- *)
(* Specifications                                                          *)
(* ---------------------------------------------------------------------- *)

\* the parts of the state a specification leaves at rest
IdlePlaced ==
    /\ placed = ComponentInfo_new(FixedShape(Shape(0, 0, <<>>, "img")), library["or_gate"].metadata)
    /\ stored = "North"
    /\ shown = Returned(Shape(0, 0, <<>>, "img"))

IdleRotate ==
    /\ orig = Shape(0, 0, <<>>, "img")
    /\ cur = Returned(orig)
    /\ steps = <<>>

\* a call record of the registry: the operation and the id it was given, the
\* registry and the argument before an extend, what create and list returned
LibCall(op, id, before, arg, created, listed) ==
    [op |-> op, id |-> id, before |-> before, arg |-> arg,
     created |-> created, listed |-> listed]

\* the record of a registry that has only been constructed
Constructed ==
    LibCall("new", "", Library_new, Library_new, Library_create(Library_new, ""), <<>>)

IdleLib ==
    /\ registry = Library_new
    /\ other = Library_new
    /\ lib_last = Constructed
    /\ latest_add = Library_new
    /\ latest_write = Library_new

IdleInst ==
    /\ objects = <<>>
    /\ inst = <<>>
    /\ inst_last = [target |-> 0, name |-> "", result |-> Ok, bystander |-> <<>>]

\* the property interface of the placed or_gate; its shape has no pins, so
\* no subtraction is evaluated and the build profile is left at wrapping
Init ==
    /\ InitInfo
    /\ overflow_checks = FALSE
    /\ IdlePlaced
    /\ IdleRotate
    /\ IdleLib
    /\ IdleInst

Next ==
    \/ \E name \in Names, value \in Values :
         set_property(name, value)
         /\ UNCHANGED <<overflow_checks, placed, stored, shown, orig, cur, steps, libVars, instVars>>
    \/ \E name \in Names :
         get_property(name)
         /\ UNCHANGED <<overflow_checks, placed, stored, shown, orig, cur, steps, libVars, instVars>>
    \/ schema /\ UNCHANGED <<overflow_checks, placed, stored, shown, orig, cur, steps, libVars, instVars>>
    \/ get_shape /\ UNCHANGED <<overflow_checks, placed, stored, shown, orig, cur, steps, libVars, instVars>>

Spec == Init /\ [][Next]_vars

\* the oriented shape of a ComponentInfo over arbitrary raw shapes
InitShape ==
    /\ InitInfo
    /\ overflow_checks \in BOOLEAN
    /\ InitPlaced
    /\ IdleRotate
    /\ IdleLib
    /\ IdleInst

NextShape ==
    \/ \E value \in Values :
         set_orientation(value)
         /\ UNCHANGED <<info, last, overflow_checks, orig, cur, steps, libVars, instVars>>
    \/ show_shape /\ UNCHANGED <<info, last, overflow_checks, orig, cur, steps, libVars, instVars>>

SpecShape == InitShape /\ [][NextShape]_vars

\* compositions of the orientation transform
InitRot ==
    /\ InitInfo
    /\ overflow_checks \in BOOLEAN
    /\ IdlePlaced
    /\ InitRotate
    /\ IdleLib
    /\ IdleInst

NextRot ==
    \E orientation \in Orientation :
       rotate(orientation)
       /\ UNCHANGED <<info, last, overflow_checks, placed, stored, shown, libVars, instVars>>

SpecRot == InitRot /\ [][NextRot]_vars

(* ---------------------------------------------------------------------- *)
(* What a host can observe of an instance                                  *)
(* ---------------------------------------------------------------------- *)

\* schema(), get_property(n) for every name n, and get_shape() of a ComponentInfo
Observe(self) ==
    [schema |-> ComponentInfo_schema(self),
     props |-> [n \in Names |-> ComponentInfo_get_property(self, n)],
     shape |-> ComponentInfo_get_shape(self)]

\* the same of a bare component
ObserveComponent(component) ==
    [schema |-> Component_schema(component),
     props |-> [n \in Names |-> Component_get_property(component, n)],
     shape |-> Component_get_shape(component)]

\* the ComponentInfo a fresh create("or_gate") returns
Fresh == Library_create(library, "or_gate").v

\* the elements of a sequence
Range(seq) == {seq[i] : i \in 1..Len(seq)}

(* ---------------------------------------------------------------------- *)
(* C1  error atomicity                                                     *)
(* ---------------------------------------------------------------------- *)

\* C1: every set_property call that returns a PropertyError leaves schema(),
\* get_property(n) for every name n (with "orientation" on the ComponentInfo)
\* and get_shape() as they were before the call, on the ComponentInfo and on
\* the bare gate.
ErrorAtomicity ==
    \A name \in Names, value \in Values :
       /\ LET out == ComponentInfo_set_property(info, name, value)
          IN out.result.kind = "Err"
               => (out.self = info \/ Observe(out.self) = Observe(info))
       /\ LET out == Component_set_property(info.component, name, value)
          IN out.result.kind = "Err"
               => \/ out.self = info.component
                  \/ ObserveComponent(out.self) = ObserveComponent(info.component)

\* a call has failed with InvalidValue on an instance that earlier calls had
\* changed in input count, output inversion and orientation
ErrorAtomicityWitness ==
    /\ last.op = "set_property"
    /\ last.result.kind = "Err"
    /\ last.result.reason = "InvalidValue"
    /\ info.component.num_inputs = 3
    /\ info.component.invert_output
    /\ info.orientation = "East"

(* ---------------------------------------------------------------------- *)
(* C2  a successful set is read back                                       *)
(* ---------------------------------------------------------------------- *)

\* a value in the encoding get_property produces: a string or a number
Canonical(value) == value.t \in {"string", "number"}

\* C2: whenever set_property(name, v) succeeds for a name of the current
\* schema, the get_property(name) that follows returns v. (Stated for values
\* in the encoding get_property itself produces.)
SetThenGet ==
    [][\A name \in Names, value \in Values :
         (/\ set_property(name, value)
          /\ name \in DOMAIN ComponentInfo_schema(info)
          /\ Canonical(value)
          /\ last'.result = Ok)
           => ComponentInfo_get_property(info', name) = Some(value)
      ]_vars

(* ---------------------------------------------------------------------- *)
(* C3  unknown names                                                       *)
(* ---------------------------------------------------------------------- *)

\* C3: set_property with a name that is not a key of the current schema()
\* returns UnknownProperty, whatever the value.
UnknownNameIsUnknownProperty ==
    [][(last'.op = "set_property" /\ last'.name \notin DOMAIN ComponentInfo_schema(info))
         => last'.result = unknown(last'.name)
      ]_vars

(* ---------------------------------------------------------------------- *)
(* C4  values outside the declared domain                                  *)
(* ---------------------------------------------------------------------- *)

\* an integer outside an Integer domain's bounds, or a token outside an Enum
\* domain's options
OutOfDomain(type_, value) ==
    IF type_.kind = "Integer"
    THEN \/ value.t = "huge"
         \/ value.t = "number" /\ (value.n < type_.min \/ value.n > type_.max)
    ELSE value.t = "string" /\ value.s \notin Range(type_.options)

\* C4: set_property with a value outside the domain that schema() declares
\* for the property returns InvalidValue.
OutOfDomainIsInvalidValue ==
    [][\A name \in Names, value \in Values :
         (/\ set_property(name, value)
          /\ name \in DOMAIN ComponentInfo_schema(info)
          /\ OutOfDomain(ComponentInfo_schema(info)[name].type_, value))
           => last'.result = from_serde(name)
      ]_vars

(* ---------------------------------------------------------------------- *)
(* C5  schema and get_property agree                                       *)
(* ---------------------------------------------------------------------- *)

\* C5: get_property(name) returns a value exactly when name is a key of the
\* current schema(), and none for every other name, on the ComponentInfo and
\* on the wrapped component.
SchemaAgreesWithGet ==
    \A name \in Names :
       /\ IF name \in DOMAIN ComponentInfo_schema(info)
          THEN ComponentInfo_get_property(info, name).kind = "Some"
          ELSE ComponentInfo_get_property(info, name) = None
       /\ IF name \in DOMAIN Component_schema(info.component)
          THEN Component_get_property(info.component, name).kind = "Some"
          ELSE Component_get_property(info.component, name) = None

(* ---------------------------------------------------------------------- *)
(* C6  structural schema                                                   *)
(* ---------------------------------------------------------------------- *)

\* the keys invert_input_0, invert_input_1, ... written out
InputKeys ==
    <<"invert_input_0", "invert_input_1", "invert_input_2", "invert_input_3",
      "invert_input_4", "invert_input_5", "invert_input_6", "invert_input_7",
      "invert_input_8", "invert_input_9">>

\* C6: the schema keys that start with invert_input_ are exactly
\* invert_input_0 .. invert_input_(n-1), n being what get_property("num_inputs")
\* returns; and on a fresh or_gate set_property("num_inputs", 3) succeeds and
\* adds invert_input_2 to the schema.
StructuralSchema ==
    /\ LET n == ComponentInfo_get_property(info, "num_inputs").v.n
       IN {k \in DOMAIN ComponentInfo_schema(info) : starts_with(k, "invert_input_")}
            = {InputKeys[i] : i \in 1..n}
    /\ LET out == ComponentInfo_set_property(Fresh, "num_inputs", JNumber(3))
       IN /\ out.result = Ok
          /\ "invert_input_2" \notin DOMAIN ComponentInfo_schema(Fresh)
          /\ "invert_input_2" \in DOMAIN ComponentInfo_schema(out.self)

\* set_property("num_inputs", 3) has succeeded and schema() was then called
StructuralSchemaWitness ==
    /\ last.op = "schema"
    /\ info.component.num_inputs = 3
    /\ Len(info.component.invert_inputs) = 3
    /\ "invert_input_2" \in DOMAIN last.result

(* ---------------------------------------------------------------------- *)
(* C7  round trip                                                          *)
(* ---------------------------------------------------------------------- *)

\* C7: after an accepted set_property(name, value), get_property(name) returns
\* a value that set_property(name, .) accepts again, and that second call
\* leaves schema, every get_property result and the shape unchanged.
RoundTrip ==
    [][\A name \in Names, value \in Values :
         (set_property(name, value) /\ last'.result = Ok)
           => LET got == ComponentInfo_get_property(info', name)
                  again == ComponentInfo_set_property(info', name, got.v)
              IN /\ got.kind = "Some"
                 /\ again.result = Ok
                 /\ Observe(again.self) = Observe(info')
      ]_vars

(* ---------------------------------------------------------------------- *)
(* C8  the orientation entry of the ComponentInfo schema                   *)
(* ---------------------------------------------------------------------- *)

\* C8: ComponentInfo.schema() has the key "orientation", not read-only, an
\* Enum of exactly North, East, South, West, and every key of the wrapped
\* component's schema() in the same state, with the component's descriptor.
OrientationInSchema ==
    LET s == ComponentInfo_schema(info)
        inner == Component_schema(info.component)
    IN /\ ORIENTATION \in DOMAIN s
       /\ ~s[ORIENTATION].read_only
       /\ s[ORIENTATION].type_.kind = "Enum"
       /\ s[ORIENTATION].type_.options = <<"North", "East", "South", "West">>
       /\ \A k \in DOMAIN inner : k \in DOMAIN s /\ (k # ORIENTATION => s[k] = inner[k])

\* schema() was called on a ComponentInfo whose gate has grown to three inputs
\* and whose orientation was changed
OrientationInSchemaWitness ==
    /\ last.op = "schema"
    /\ info.component.num_inputs = 3
    /\ info.orientation = "West"
    /\ DOMAIN last.result =
         {"invert_output", "num_inputs", "num_bits", ORIENTATION,
          "invert_input_0", "invert_input_1", "invert_input_2"}

(* ---------------------------------------------------------------------- *)
(* C9  the oriented shape of a ComponentInfo                               *)
(* ---------------------------------------------------------------------- *)

\* a - b in i32 two's-complement arithmetic
Minus(a, b) ==
    IF b < 0 /\ a > I32Max + b THEN (a - I32Max - 1) - (b + I32Max + 1)
    ELSE IF b > 0 /\ a < I32Min + b THEN (a + I32Max + 1) - (b - I32Max - 1)
    ELSE a - b

\* C9: whenever get_shape() returns, it returns the wrapped component's raw
\* shape with width and height swapped for East and West, every pin at
\* North (x, y), East (w-y, x), South (w-x, h-y), West (y, h-x) for the
\* possibly swapped (w, h) and the orientation most recently stored by a
\* successful set_property("orientation", .), and image, pin names and pin
\* widths as they are; for North it returns the raw shape. It fails to return
\* only where overflow checks are compiled in.
OrientedShape ==
    LET raw == Component_get_shape(placed.component)
        got == ComponentInfo_get_shape(placed)
        w == IF stored \in {"East", "West"} THEN raw.height ELSE raw.width
        h == IF stored \in {"East", "West"} THEN raw.width ELSE raw.height
    IN /\ ~got.ok => overflow_checks
       /\ stored = "North" => got = Returned(raw)
       /\ got.ok =>
            /\ got.v.width = w
            /\ got.v.height = h
            /\ got.v.image_name = raw.image_name
            /\ Len(got.v.pins) = Len(raw.pins)
            /\ \A i \in 1..Len(raw.pins) :
                 LET pin == raw.pins[i]
                 IN /\ got.v.pins[i].name = pin.name
                    /\ got.v.pins[i].bits = pin.bits
                    /\ <<got.v.pins[i].x, got.v.pins[i].y>> =
                         CASE stored = "North" -> <<pin.x, pin.y>>
                           [] stored = "East" -> <<Minus(w, pin.y), pin.x>>
                           [] stored = "South" -> <<Minus(w, pin.x), Minus(h, pin.y)>>
                           [] stored = "West" -> <<pin.y, Minus(h, pin.x)>>

\* get_shape() has returned the East view of a shape that is wider than high
\* and has a pin off the diagonal
OrientedShapeWitness ==
    LET raw == Component_get_shape(placed.component)
    IN /\ stored = "East"
       /\ shown = ComponentInfo_get_shape(placed)
       /\ shown.ok
       /\ raw.width = 1 /\ raw.height = 0
       /\ Len(raw.pins) = 1
       /\ raw.pins[1].x = 1 /\ raw.pins[1].y = -1
       /\ shown.v.width = 0 /\ shown.v.height = 1
       /\ shown.v.pins[1].x = 1 /\ shown.v.pins[1].y = 1

(* ---------------------------------------------------------------------- *)
(* C10  East and West undo each other                                      *)
(* ---------------------------------------------------------------------- *)

\* two shapes with the same extents and the same pin positions
SameGeometry(a, b) ==
    /\ a.width = b.width
    /\ a.height = b.height
    /\ Len(a.pins) = Len(b.pins)
    /\ \A i \in 1..Len(a.pins) : a.pins[i].x = b.pins[i].x /\ a.pins[i].y = b.pins[i].y

\* C10: West followed by East, and East followed by West, return width,
\* height and every pin position of the original shape.
EastWestInverse ==
    (cur.ok /\ steps \in {<<"West", "East">>, <<"East", "West">>})
       => SameGeometry(cur.v, orig)

\* West then East has been applied to a shape that is wider than high and has
\* a pin off the diagonal
EastWestInverseWitness ==
    /\ steps = <<"West", "East">>
    /\ cur.ok
    /\ orig.width = 1 /\ orig.height = 0
    /\ Len(orig.pins) = 1
    /\ orig.pins[1].x = 1 /\ orig.pins[1].y = -1

(* ---------------------------------------------------------------------- *)
(* C11  North, East, South, West, North in sequence                        *)
(* ---------------------------------------------------------------------- *)

\* the orientations of the cycle, in the order they are applied
Cycle == <<"North", "East", "South", "West", "North">>

\* the next orientation of the cycle is applied: Cycle[k].map_shape(cur)
rotate_cycle ==
    /\ Len(steps) < Len(Cycle)
    /\ cur.ok
    /\ cur' = map_shape(Cycle[Len(steps) + 1], cur.v)
    /\ steps' = Append(steps, Cycle[Len(steps) + 1])
    /\ UNCHANGED orig

NextCycle ==
    rotate_cycle /\ UNCHANGED <<info, last, overflow_checks, placed, stored, shown, libVars, instVars>>

\* the cycle applied to every shape
SpecCycle == InitRot /\ [][NextCycle]_vars

\* C11 as stated: after North, East, South, West, North, each applied to the
\* previous result, width, height and every pin position equal the original's.
FullCycleIdentity ==
    (cur.ok /\ steps = Cycle) => SameGeometry(cur.v, orig)

\* C11 as amended: after North, East, South, West, North, each applied to the
\* previous result, width and height equal the original's and every pin is at
\* (w - x, h - y), where a single South rotation of the original puts it.
FullCycleIsSouth ==
    (cur.ok /\ steps = Cycle)
       => /\ cur.v.width = orig.width
          /\ cur.v.height = orig.height
          /\ Len(cur.v.pins) = Len(orig.pins)
          /\ \A i \in 1..Len(orig.pins) :
               /\ cur.v.pins[i].x = Minus(orig.width, orig.pins[i].x)
               /\ cur.v.pins[i].y = Minus(orig.height, orig.pins[i].y)

\* the whole cycle has been applied to a shape that is wider than high and
\* has a pin that a half turn moves
FullCycleIsSouthWitness ==
    /\ steps = Cycle
    /\ cur.ok
    /\ orig.width = 1 /\ orig.height = 0
    /\ Len(orig.pins) = 1
    /\ orig.pins[1].x = 0 /\ orig.pins[1].y = 1
    /\ cur.v.pins[1].x = 1 /\ cur.v.pins[1].y = -1

(* ---------------------------------------------------------------------- *)
(* C20  quarter turns compose                                              *)
(* ---------------------------------------------------------------------- *)

\* C20: East twice and West twice each give the width, height and pin
\* positions of one South rotation, (w - x, h - y) with unchanged extents,
\* and South twice gives back the original.
QuarterTurns ==
    /\ (cur.ok /\ steps \in {<<"East", "East">>, <<"West", "West">>})
         => /\ cur.v.width = orig.width
            /\ cur.v.height = orig.height
            /\ Len(cur.v.pins) = Len(orig.pins)
            /\ \A i \in 1..Len(orig.pins) :
                 /\ cur.v.pins[i].x = Minus(orig.width, orig.pins[i].x)
                 /\ cur.v.pins[i].y = Minus(orig.height, orig.pins[i].y)
            /\ map_shape("South", orig).ok
                 => SameGeometry(cur.v, map_shape("South", orig).v)
    /\ (cur.ok /\ steps = <<"South", "South">>) => SameGeometry(cur.v, orig)

\* East has been applied twice to a shape that is wider than high and has a
\* pin that a half turn moves
QuarterTurnsWitness ==
    /\ steps = <<"East", "East">>
    /\ cur.ok
    /\ orig.width = 1 /\ orig.height = 0
    /\ Len(orig.pins) = 1
    /\ orig.pins[1].x = 0 /\ orig.pins[1].y = 1
    /\ cur.v.pins[1].x = 1 /\ cur.v.pins[1].y = -1

(* ---------------------------------------------------------------------- *)
(* C17  shrinking removes properties                                       *)
(* ---------------------------------------------------------------------- *)

\* C17: when set_property("num_inputs", m) succeeds on a gate with
\* num_inputs = n > m, then for every k with m <= k < n the key
\* invert_input_k is absent from schema(), get_property of it returns none
\* and set_property of it returns UnknownProperty, whatever the value.
ShrinkingRemoves ==
    [][(/\ last'.op = "set_property"
        /\ last'.name = "num_inputs"
        /\ last'.result = Ok
        /\ info'.component.num_inputs < info.component.num_inputs)
         => \A k \in info'.component.num_inputs .. info.component.num_inputs - 1 :
              /\ invert_input_id(k) \notin DOMAIN ComponentInfo_schema(info')
              /\ ComponentInfo_get_property(info', invert_input_id(k)) = None
              /\ \A v \in Values :
                   ComponentInfo_set_property(info', invert_input_id(k), v).result
                     = unknown(invert_input_id(k))
      ]_vars

(* ---------------------------------------------------------------------- *)
(* C18  the wrapper keeps orientation apart from the component             *)
(* ---------------------------------------------------------------------- *)

\* the string form of one of the four orientation tokens
IsToken(value) == value.t = "string" /\ value.s \in Orientation

\* a value serde decodes as an orientation: the token as a string, or the
\* single-key object { token: null }
DecodesAsToken(value) == value.t \in {"string", "object"} /\ value.s \in Orientation

\* what a set_property on the wrapper does when the orientation is accepted
\* (accepted(v)) and when it is not, and when the name is another one
Separates(accepted(_)) ==
    /\ \A value \in Values :
         LET out == ComponentInfo_set_property(info, ORIENTATION, value)
         IN IF accepted(value)
            THEN /\ out.result = Ok
                 /\ out.self.orientation = value.s
                 /\ ComponentInfo_get_property(out.self, ORIENTATION)
                      = Some(JString(value.s))
                 /\ out.self.component = info.component
                 /\ Component_get_shape(out.self.component)
                      = Component_get_shape(info.component)
                 /\ out.self.x = info.x /\ out.self.y = info.y
            ELSE /\ out.result = from_serde(ORIENTATION)
                 /\ out.self.orientation = info.orientation
    /\ \A name \in Names \ {ORIENTATION}, value \in Values :
         LET out == ComponentInfo_set_property(info, name, value)
             inner == Component_set_property(info.component, name, value)
         IN /\ out.result = inner.result
            /\ out.self.component = inner.self
            /\ out.self.orientation = info.orientation
            /\ out.self.x = info.x /\ out.self.y = info.y

\* C18 as stated: set_property("orientation", v) with v one of the four
\* tokens stores v and leaves the wrapped component and its raw shape as they
\* were; with any other v it returns InvalidValue and the stored orientation
\* is unchanged; with any other name it returns the wrapped component's
\* result and leaves orientation and position as they were.
OrientationSeparateTokens == Separates(IsToken)

\* C18 as amended: the same, with "v one of the four tokens" read as "v
\* decodes as one of the four tokens", which the string form and the
\* single-key object { token: null } both do; only a v that does not decode
\* returns InvalidValue.
OrientationSeparate == Separates(DecodesAsToken)

\* an orientation has been stored on a wrapper whose component had been
\* changed before, and the component is as it was
OrientationSeparateWitness ==
    /\ last.op = "set_property"
    /\ last.name = ORIENTATION
    /\ last.result = Ok
    /\ info.orientation = "South"
    /\ info.component.invert_output
    /\ info.component.num_inputs = 3

(* ---------------------------------------------------------------------- *)
(* C19  values stay inside their declared domains                          *)
(* ---------------------------------------------------------------------- *)

\* the value lies in the domain a schema entry declares
InDomain(type_, got) ==
    /\ got.kind = "Some"
    /\ IF type_.kind = "Integer"
       THEN got.v.t = "number" /\ type_.min <= got.v.n /\ got.v.n <= type_.max
       ELSE got.v.t = "string" /\ got.v.s \in Range(type_.options)

\* C19: in every state reachable from a fresh gate, get_property("num_inputs")
\* and get_property("num_bits") lie within the bounds schema() declares for
\* them and every enum-typed property's value is one of its listed options.
ValuesInDomain ==
    \A name \in DOMAIN Component_schema(info.component) :
       InDomain(Component_schema(info.component)[name].type_,
                Component_get_property(info.component, name))

(* ---------------------------------------------------------------------- *)
(* src/library.rs: a registry built by add and extend, read by create/list *)
(* ---------------------------------------------------------------------- *)

\* the ids entries are registered under, and the ids create is asked for
Ids == {"and_gate", "or_gate"}
LookupIds == Ids \cup {"missing_id"}

\* the metadata handed to add: two display names for every id
Metadatas ==
    {ComponentMetadata_new(id, name, CATEGORY, "A gate") :
       id \in Ids, name \in {"Gate", "Gate, revised"}}

\* the factories handed to add
Factories == {"And", "Or"}

\* what create returns before it has been called
NotCreated == Library_create(Library_new, "")

\* registry.add(metadata, factory)
add(metadata, factory) ==
    /\ registry' = Library_add(registry, metadata, factory)
    /\ lib_last' = LibCall("add", metadata.id, registry, Library_new, NotCreated, <<>>)
    /\ latest_add' = insert(latest_add, metadata.id,
                            [metadata |-> metadata,
                             again |-> metadata.id \in DOMAIN latest_add])
    /\ latest_write' = insert(latest_write, metadata.id, metadata)
    /\ UNCHANGED other

\* other.add(metadata, factory)
add_other(metadata, factory) ==
    /\ other' = Library_add(other, metadata, factory)
    /\ lib_last' = LibCall("add_other", metadata.id, registry, Library_new, NotCreated, <<>>)
    /\ UNCHANGED <<registry, latest_add, latest_write>>

\* registry.extend(other): other is moved into the call; the name then
\* stands for a Library::new() that the host starts to fill again
extend ==
    /\ registry' = Library_extend(registry, other)
    /\ other' = Library_new
    /\ lib_last' = LibCall("extend", "", registry, other, NotCreated, <<>>)
    /\ latest_write' =
         [id \in (DOMAIN latest_write) \cup (DOMAIN other) |->
            IF id \in DOMAIN other THEN other[id].metadata ELSE latest_write[id]]
    /\ UNCHANGED latest_add

\* registry.create(id), on &self
create(id) ==
    /\ lib_last' = LibCall("create", id, registry, Library_new,
                           Library_create(registry, id), <<>>)
    /\ UNCHANGED <<registry, other, latest_add, latest_write>>

\* registry.list(), on &self
list ==
    /\ lib_last' = LibCall("list", "", registry, Library_new, NotCreated,
                           Library_list(registry))
    /\ UNCHANGED <<registry, other, latest_add, latest_write>>

InitLib ==
    /\ InitInfo
    /\ overflow_checks = FALSE
    /\ IdlePlaced
    /\ IdleRotate
    /\ IdleLib
    /\ IdleInst

NextLib ==
    \/ \E metadata \in Metadatas, factory \in Factories :
         add(metadata, factory)
         /\ UNCHANGED <<info, last, overflow_checks, placed, stored, shown,
                        orig, cur, steps, instVars>>
    \/ \E metadata \in Metadatas, factory \in Factories :
         add_other(metadata, factory)
         /\ UNCHANGED <<info, last, overflow_checks, placed, stored, shown,
                        orig, cur, steps, instVars>>
    \/ extend /\ UNCHANGED <<info, last, overflow_checks, placed, stored, shown,
                             orig, cur, steps, instVars>>
    \/ \E id \in LookupIds :
         create(id)
         /\ UNCHANGED <<info, last, overflow_checks, placed, stored, shown,
                        orig, cur, steps, instVars>>
    \/ list /\ UNCHANGED <<info, last, overflow_checks, placed, stored, shown,
                           orig, cur, steps, instVars>>

\* a registry under every sequence of add, extend, create and list
SpecLib == InitLib /\ [][NextLib]_vars

(* ---------------------------------------------------------------------- *)
(* C12  create fails exactly on an unregistered id                         *)
(* ---------------------------------------------------------------------- *)

\* C12: after any sequence of add/extend calls, create(id) fails exactly when
\* no add or extend has inserted id; the failure is a MissingComponentError
\* whose id is the requested id; and create and list, failing or not, leave
\* the registry's entries as they were.
CreateFailsExactlyOnMiss ==
    /\ \A id \in LookupIds :
         LET got == Library_create(registry, id)
         IN /\ got.ok <=> id \in DOMAIN latest_write
            /\ ~got.ok => got.v = [id |-> id]
    /\ lib_last.op = "create"
         => /\ lib_last.created.ok <=> lib_last.id \in DOMAIN latest_write
            /\ ~lib_last.created.ok => lib_last.created.v = [id |-> lib_last.id]
            /\ registry = lib_last.before
    /\ lib_last.op = "list" => registry = lib_last.before

\* create("missing_id") has failed on a registry that holds both other ids
CreateFailsExactlyOnMissWitness ==
    /\ lib_last.op = "create"
    /\ lib_last.id = "missing_id"
    /\ ~lib_last.created.ok
    /\ lib_last.created.v.id = "missing_id"
    /\ DOMAIN registry = Ids

(* ---------------------------------------------------------------------- *)
(* C13  what a successful create returns                                   *)
(* ---------------------------------------------------------------------- *)

\* a ComponentInfo as create(id) has to return it from the entry: at (0,0),
\* facing North, around a gate of the entry's factory in its initial state,
\* bound to the entry's metadata, whose id is the requested one
FreshFrom(got, entry, id) ==
    /\ got.ok
    /\ got.v.x = 0 /\ got.v.y = 0
    /\ got.v.orientation = "North"
    /\ ComponentInfo_get_property(got.v, ORIENTATION) = Some(JString("North"))
    /\ got.v.component = [type_ |-> entry.factory,
                          invert_output |-> FALSE,
                          num_inputs |-> 2,
                          num_bits |-> 1,
                          invert_inputs |-> <<FALSE, FALSE>>]
    /\ ComponentInfo_get_property(got.v, "num_inputs") = Some(JNumber(2))
    /\ ComponentInfo_get_property(got.v, "num_bits") = Some(JNumber(1))
    /\ ComponentInfo_get_property(got.v, "invert_output") = Some(JString("No"))
    /\ got.v.metadata = entry.metadata
    /\ got.v.metadata.id = id

\* C13: after any sequence of add/extend calls, create(id) for a registered
\* id returns a new ComponentInfo at (0,0) facing North (get_property of
\* "orientation" is "North"), around a component freshly produced by the
\* entry's factory in its initial state, bound to the entry's metadata, whose
\* id equals the requested id.
CreateReturnsFresh ==
    /\ \A id \in DOMAIN latest_write :
         /\ id \in DOMAIN registry
         /\ registry[id].metadata = latest_write[id]
         /\ FreshFrom(Library_create(registry, id), registry[id], id)
    /\ (lib_last.op = "create" /\ lib_last.id \in DOMAIN latest_write)
         => FreshFrom(lib_last.created, registry[lib_last.id], lib_last.id)

\* create("and_gate") has returned an instance of an entry that was
\* overwritten before, while another entry is registered as well
CreateReturnsFreshWitness ==
    /\ lib_last.op = "create"
    /\ lib_last.id = "and_gate"
    /\ lib_last.created.ok
    /\ lib_last.created.v.component.type_ = "And"
    /\ lib_last.created.v.metadata.name = "Gate, revised"
    /\ "and_gate" \in DOMAIN latest_add
    /\ latest_add["and_gate"].again
    /\ DOMAIN registry = Ids

(* ---------------------------------------------------------------------- *)
(* C14  extend: the incoming entry wins                                    *)
(* ---------------------------------------------------------------------- *)

\* C14: after A.extend(B), for every id registered in B, A's entry (metadata
\* and factory) equals B's entry, also where A had the id already; for every
\* id registered in A but not in B, A's entry is unchanged; and A has no
\* other ids.
ExtendLastWriterWins ==
    lib_last.op = "extend"
       => /\ \A id \in DOMAIN lib_last.arg :
               /\ id \in DOMAIN registry
               /\ registry[id].metadata = lib_last.arg[id].metadata
               /\ registry[id].factory = lib_last.arg[id].factory
          /\ \A id \in (DOMAIN lib_last.before) \ (DOMAIN lib_last.arg) :
               /\ id \in DOMAIN registry
               /\ registry[id] = lib_last.before[id]
          /\ DOMAIN registry = (DOMAIN lib_last.before) \cup (DOMAIN lib_last.arg)

\* extend has merged a registry that collides with the receiver on or_gate,
\* with another metadata and another factory, and lacks the receiver's and_gate
ExtendLastWriterWinsWitness ==
    /\ lib_last.op = "extend"
    /\ DOMAIN lib_last.before = Ids
    /\ DOMAIN lib_last.arg = {"or_gate"}
    /\ lib_last.before["or_gate"].metadata # lib_last.arg["or_gate"].metadata
    /\ lib_last.before["or_gate"].factory # lib_last.arg["or_gate"].factory
    /\ registry["or_gate"] = lib_last.arg["or_gate"]
    /\ registry["and_gate"] = lib_last.before["and_gate"]

(* ---------------------------------------------------------------------- *)
(* C15  list                                                               *)
(* ---------------------------------------------------------------------- *)

\* the listing holds exactly one Metadata per registered id, in ascending
\* order of the ids (and_gate sorts before or_gate)
OnePerIdAscending(listed) ==
    /\ Len(listed) = Cardinality(DOMAIN latest_write)
    /\ {listed[i].id : i \in 1..Len(listed)} = DOMAIN latest_write
    /\ \A i, j \in 1..Len(listed) :
         i < j => (listed[i].id = "and_gate" /\ listed[j].id = "or_gate")

\* C15 as stated: after any sequence of add/extend calls, list() returns
\* exactly one Metadata per distinct registered id, in ascending id order, and
\* for an id registered more than once by add the listed Metadata is the one
\* passed to the most recent add.
ListShowsLatestAdd ==
    lib_last.op = "list"
       => /\ OnePerIdAscending(lib_last.listed)
          /\ \A id \in DOMAIN latest_add :
               latest_add[id].again
                 => \E i \in 1..Len(lib_last.listed) :
                      lib_last.listed[i] = latest_add[id].metadata

\* C15 as amended: after any sequence of add/extend calls, list() returns
\* exactly one Metadata per distinct registered id, in ascending id order, and
\* the Metadata listed for an id is the one most recently inserted under it,
\* by add or by an extend whose argument held the id (add and extend both
\* overwrite an existing entry with the same id).
ListShowsLatestWrite ==
    /\ OnePerIdAscending(Library_list(registry))
    /\ \A i \in 1..Len(Library_list(registry)) :
         Library_list(registry)[i] = latest_write[Library_list(registry)[i].id]
    /\ lib_last.op = "list"
         => /\ OnePerIdAscending(lib_last.listed)
            /\ \A i \in 1..Len(lib_last.listed) :
                 lib_last.listed[i] = latest_write[lib_last.listed[i].id]

\* list has returned both entries, or_gate second, where or_gate was added
\* twice and then overwritten by an extend
ListShowsLatestWriteWitness ==
    /\ lib_last.op = "list"
    /\ Len(lib_last.listed) = 2
    /\ lib_last.listed[1].id = "and_gate"
    /\ lib_last.listed[2].id = "or_gate"
    /\ "or_gate" \in DOMAIN latest_add
    /\ latest_add["or_gate"].again
    /\ lib_last.listed[2] # latest_add["or_gate"].metadata

(* ---------------------------------------------------------------------- *)
(* Instances created from one registry entry                               *)
(* ---------------------------------------------------------------------- *)

\* variant of Box::new that hands out the allocation made first, if any
Box_new_shared(heap, component) ==
    IF Len(heap) > 0 THEN [heap |-> heap, ptr |-> 1]
    ELSE [heap |-> Append(heap, component), ptr |-> Len(heap) + 1]

\* Box::new: a new allocation holding the component
Box_new(heap, component) ==
    [heap |-> Append(heap, component), ptr |-> Len(heap) + 1]

\* a ComponentInfo with the component its Box points to
deref(self) == [self EXCEPT !.component = objects[self.component]]

\* the property names and values offered to the instances
InstNames == {"invert_output", "num_inputs", ORIENTATION, "invert_input_0"}
InstValues == {JNumber(3), JString("Yes"), JString("East"), JNull}

\* registry.create(id): the factory boxes a new component, ComponentInfo::new
\* takes the box (the host obtains two instances)
create_instance(id) ==
    /\ Len(inst) < 2
    /\ Library_create(registry, id).ok
    /\ LET got == Library_create(registry, id).v
           box == Box_new(objects, got.component)
       IN /\ objects' = box.heap
          /\ inst' = Append(inst, [got EXCEPT !.component = box.ptr])
    /\ UNCHANGED inst_last

\* inst[target].set_property(name, value); the states of the other
\* instances before the call are kept for comparison
set_property_on(target, name, value) ==
    LET out == ComponentInfo_set_property(deref(inst[target]), name, value)
    IN /\ objects' = [objects EXCEPT ![inst[target].component] = out.self.component]
       /\ inst' = [inst EXCEPT
                     ![target] = [out.self EXCEPT !.component = inst[target].component]]
       /\ inst_last' = [target |-> target, name |-> name, result |-> out.result,
                        bystander |-> [u \in (1..Len(inst)) \ {target} |->
                                         deref(inst[u])]]

InitInst ==
    /\ InitInfo
    /\ overflow_checks = FALSE
    /\ IdlePlaced
    /\ IdleRotate
    /\ registry = library
    /\ other = Library_new
    /\ lib_last = Constructed
    /\ latest_add = Library_new
    /\ latest_write = Library_new
    /\ IdleInst

NextInst ==
    \/ create_instance("or_gate")
       /\ UNCHANGED <<info, last, overflow_checks, placed, stored, shown,
                      orig, cur, steps, libVars>>
    \/ \E target \in 1..Len(inst), name \in InstNames, value \in InstValues :
         set_property_on(target, name, value)
         /\ UNCHANGED <<info, last, overflow_checks, placed, stored, shown,
                        orig, cur, steps, libVars>>

\* two instances of the or_gate entry under every sequence of set_property
SpecInst == InitInst /\ [][NextInst]_vars

(* ---------------------------------------------------------------------- *)
(* C16  instances are independent                                          *)
(* ---------------------------------------------------------------------- *)

\* C16: for two ComponentInfos obtained by two create(id) calls with the same
\* id, every set_property on one leaves the other's schema(), get_property
\* results and get_shape() unchanged, and the Metadata that list() returns
\* stays what gates::library registered.
InstancesIndependent ==
    /\ \A u \in DOMAIN inst_last.bystander :
         \/ deref(inst[u]) = inst_last.bystander[u]
         \/ Observe(deref(inst[u])) = Observe(inst_last.bystander[u])
    /\ Library_list(registry) = Library_list(library)
    /\ \A u \in 1..Len(inst) : inst[u].metadata = Library_list(registry)[1]

\* a set_property on the first instance has succeeded and changed it while
\* the second instance, created from the same entry, is as create returned it
InstancesIndependentWitness ==
    /\ Len(inst) = 2
    /\ inst_last.target = 1
    /\ inst_last.name = "num_inputs"
    /\ inst_last.result = Ok
    /\ deref(inst[1]).component.num_inputs = 3
    /\ deref(inst[1]).component.invert_output
    /\ deref(inst[2]) = Fresh
    /\ inst_last.bystander[2] = Fresh

====
